---- MODULE Spec2Model ----
(***************************************************************************)
(* A model of lvm_state (src/main.py): the listing parsers, the entity     *)
(* classifiers, the health report, the snapshot's overall status and the   *)
(* run of main().                                                          *)
(*                                                                         *)
(* Text is a sequence of one-character strings, so that strip(), split()   *)
(* and the `in` tests are computed character by character.  A float is a   *)
(* fixed-point integer counted in hundredths (Scale), the resolution of    *)
(* the listings' "--units g --nosuffix" columns.                           *)
(***************************************************************************)
EXTENDS Integers, Sequences, FiniteSets, TLC

VARIABLES
    pc,               \* position of the run: main / run_full_check / the parse harness
    stdout,           \* text returned by the last _run_command (local `output`)
    code,             \* exit status returned by the last _run_command (local `code`)
    pvs,              \* run_full_check local: List[PhysicalVolume]
    vgs,              \* run_full_check local: List[VolumeGroup]
    lvs,              \* run_full_check local: List[LogicalVolume]
    thin_pools,       \* run_full_check local: List[ThinPool]
    mounts,           \* run_full_check local: mount bindings
    dm_devices,       \* run_full_check local: device-mapper entries
    metadata_backup,  \* run_full_check local: metadata backup status
    issues,           \* generate_health_report: issue strings
    warnings,         \* generate_health_report: warning strings
    summary_status,   \* the verdict display_summary prints
    health_check,     \* LVMStateChecker.health_check (the snapshot)
    exit_code         \* the status the process exited with

vars == <<pc, stdout, code, pvs, vgs, lvs, thin_pools, mounts, dm_devices,
          metadata_backup, issues, warnings, summary_status, health_check, exit_code>>

\* ------------------------------------------------------------------ text

\* Python's None for an Optional[str]: no character sequence equals it.
None == <<"None">>

\* str.strip() strips these.
Whitespace == {" ", "\t", "\n"}

RECURSIVE lstrip(_)
lstrip(s) ==
    IF s # <<>> /\ Head(s) \in Whitespace THEN lstrip(Tail(s)) ELSE s

RECURSIVE rstrip(_)
rstrip(s) ==
    IF s # <<>> /\ s[Len(s)] \in Whitespace THEN rstrip(SubSeq(s, 1, Len(s) - 1)) ELSE s

\* str.strip()
strip(s) == rstrip(lstrip(s))

\* `c in s` for a one-character c
contains(s, c) == \E i \in 1..Len(s) : s[i] = c

\* `needle in hay`
is_substring(needle, hay) ==
    \E i \in 0..(Len(hay) - Len(needle)) : SubSeq(hay, i + 1, i + Len(needle)) = needle

\* str.split(sep) for a one-character sep: always at least one field
RECURSIVE split(_, _)
split(s, sep) ==
    IF ~contains(s, sep) THEN <<s>>
    ELSE LET k == CHOOSE i \in 1..Len(s) : s[i] = sep /\ \A j \in 1..(i - 1) : s[j] # sep
         IN  <<SubSeq(s, 1, k - 1)>> \o split(SubSeq(s, k + 1, Len(s)), sep)

\* str.replace(old, new) for one-character old and new
replace(s, old, new) == [i \in 1..Len(s) |-> IF s[i] = old THEN new ELSE s[i]]

UpperCase == <<"A","B","C","D","E","F","G","H","I","J","K","L","M","N","O","P","Q","R","S","T","U","V","W","X","Y","Z">>
LowerCase == <<"a","b","c","d","e","f","g","h","i","j","k","l","m","n","o","p","q","r","s","t","u","v","w","x","y","z">>

\* str.lower()
lower(s) ==
    [i \in 1..Len(s) |->
        IF \E k \in 1..Len(UpperCase) : UpperCase[k] = s[i]
        THEN LowerCase[CHOOSE k \in 1..Len(UpperCase) : UpperCase[k] = s[i]]
        ELSE s[i]]

\* ------------------------------------------------------------------ numbers

\* Fixed-point resolution of a float: hundredths.
Scale == 10 * 10

DigitChars == <<"0","1","2","3","4","5","6","7","8","9">>

IsDigit(c) == \E k \in 1..Len(DigitChars) : DigitChars[k] = c

DigitVal(c) == (CHOOSE k \in 1..Len(DigitChars) : DigitChars[k] = c) - 1

IsDigits(s) == \A i \in 1..Len(s) : IsDigit(s[i])

RECURSIVE NatVal(_)
NatVal(s) ==
    IF s = <<>> THEN 0 ELSE NatVal(SubSeq(s, 1, Len(s) - 1)) * 10 + DigitVal(s[Len(s)])

\* the fraction digits, in hundredths (digits past the second are below the resolution)
FracVal(s) ==
    (IF Len(s) >= 1 THEN DigitVal(s[1]) * 10 ELSE 0) + (IF Len(s) >= 2 THEN DigitVal(s[2]) ELSE 0)

\* float(s) on a stripped, non-empty text: [sign] digits [ "." digits ], with at
\* least one digit; anything else raises ValueError (ok = FALSE).  Exponents,
\* underscores and the inf/nan words are outside the alphabet of the listings
\* modelled here.
float(s) ==
    LET signed == s # <<>> /\ s[1] \in {"+", "-"}
        body   == IF signed THEN Tail(s) ELSE s
        dots   == {i \in 1..Len(body) : body[i] = "."}
        dot    == IF dots = {} THEN Len(body) + 1 ELSE CHOOSE i \in dots : TRUE
        ip     == SubSeq(body, 1, dot - 1)
        fp     == SubSeq(body, dot + 1, Len(body))
        ok     == /\ Cardinality(dots) <= 1
                  /\ IsDigits(ip) /\ IsDigits(fp)
                  /\ Len(ip) + Len(fp) >= 1
        mag    == NatVal(ip) * Scale + FracVal(fp)
    IN  [ok |-> ok, val |-> IF ~ok THEN 0 ELSE IF signed /\ s[1] = "-" THEN 0 - mag ELSE mag]

\* _safe_float without the comma substitution
_safe_float_period_only(value, default) ==
    IF value = None THEN default
    ELSE LET clean_value == strip(value)
         IN  IF clean_value # <<>> /\ float(clean_value).ok
             THEN float(clean_value).val
             ELSE default

\* LVMStateChecker._safe_float.  A value that is not a str has no replace method:
\* the AttributeError is caught like the ValueError of float().
_safe_float(value, default) ==
    IF value = None THEN default
    ELSE LET clean_value == strip(replace(value, ",", "."))
         IN  IF clean_value # <<>> /\ float(clean_value).ok
             THEN float(clean_value).val
             ELSE default

\* int(s): surrounding whitespace, [sign], digits
int(s) ==
    LET t      == strip(s)
        signed == t # <<>> /\ t[1] \in {"+", "-"}
        body   == IF signed THEN Tail(t) ELSE t
        ok     == body # <<>> /\ IsDigits(body)
    IN  [ok |-> ok, val |-> IF ~ok THEN 0 ELSE IF signed /\ t[1] = "-" THEN 0 - NatVal(body) ELSE NatVal(body)]

\* LVMStateChecker._safe_int
_safe_int(value, default) ==
    IF value # <<>> /\ int(value).ok THEN int(value).val ELSE default

\* (part / whole) * 100 of two floats, as a float
percent_of(part, whole) == (part * 100 * Scale) \div whole

\* ------------------------------------------------------------------ classifiers

\* PhysicalVolume.lvm_status that overlooks the missing label
PhysicalVolume_lvm_status_without_missing(pv) ==
    IF is_substring(<<"u","n","k","n","o","w","n">>, lower(pv.status))
    THEN "CRITICAL"
    ELSE IF is_substring(<<"i","n","a","c","t","i","v","e">>, lower(pv.status))
    THEN "WARNING"
    ELSE "HEALTHY"

\* PhysicalVolume.lvm_status
PhysicalVolume_lvm_status(pv) ==
    IF is_substring(<<"u","n","k","n","o","w","n">>, lower(pv.status)) \/ is_substring(<<"m","i","s","s","i","n","g">>, lower(pv.status))
    THEN "CRITICAL"
    ELSE IF is_substring(<<"i","n","a","c","t","i","v","e">>, lower(pv.status))
    THEN "WARNING"
    ELSE "HEALTHY"

\* VolumeGroup.lvm_status that overlooks the exported marker
VolumeGroup_lvm_status_partial_only(vg) ==
    IF contains(vg.attributes, "p") THEN "CRITICAL"
    ELSE IF ~contains(vg.attributes, "p") THEN "HEALTHY"
    ELSE "WARNING"

\* VolumeGroup.lvm_status
VolumeGroup_lvm_status(vg) ==
    IF contains(vg.attributes, "p") THEN "CRITICAL"
    ELSE IF contains(vg.attributes, "x") THEN "CRITICAL"
    ELSE IF ~contains(vg.attributes, "p") /\ ~contains(vg.attributes, "x") THEN "HEALTHY"
    ELSE "WARNING"

\* LogicalVolume._check_snapshot_status
_check_snapshot_status(lv) == "HEALTHY"

\* LogicalVolume.lvm_status
LogicalVolume_lvm_status(lv) ==
    IF contains(lv.attributes, "s") /\ _check_snapshot_status(lv) # "HEALTHY"
    THEN _check_snapshot_status(lv)
    ELSE IF ~contains(lv.attributes, "a") THEN "CRITICAL"
    ELSE IF contains(lv.attributes, "m") THEN "WARNING"
    ELSE "HEALTHY"

\* ThinPool.lvm_status with >= where the code has >
ThinPool_lvm_status_inclusive(pool) ==
    IF pool.data_percent >= 90 * Scale THEN "CRITICAL"
    ELSE IF pool.data_percent >= 80 * Scale THEN "WARNING"
    ELSE IF pool.metadata_percent >= 90 * Scale THEN "CRITICAL"
    ELSE IF pool.metadata_percent >= 80 * Scale THEN "WARNING"
    ELSE "HEALTHY"

\* ThinPool.lvm_status
ThinPool_lvm_status(pool) ==
    IF pool.data_percent > 90 * Scale THEN "CRITICAL"
    ELSE IF pool.data_percent > 80 * Scale THEN "WARNING"
    ELSE IF pool.metadata_percent > 90 * Scale THEN "CRITICAL"
    ELSE IF pool.metadata_percent > 80 * Scale THEN "WARNING"
    ELSE "HEALTHY"

\* ------------------------------------------------------------------ parsers

RECURSIVE flatten(_)
flatten(ss) == IF ss = <<>> THEN <<>> ELSE Head(ss) \o flatten(Tail(ss))

\* the loop header of every listing parser: output.strip().split('\n')
output_lines(output) == split(strip(output), "\n")

\* check_physical_volumes, one line: the entity it appends, if any
pv_of_line(line) ==
    IF strip(line) = <<>> THEN <<>>
    ELSE LET fields == split(strip(line), "|") IN
         IF Len(fields) >= 6
         THEN LET name       == strip(fields[1])
                  vg_name    == IF strip(fields[2]) # <<>> THEN strip(fields[2]) ELSE <<"<","o","r","p","h","a","n",">">>
                  size_gb    == _safe_float(fields[3], 0)
                  free_gb    == _safe_float(fields[4], 0)
                  used_gb    == _safe_float(fields[5], 0)
                  attributes == strip(fields[6])
                  uuid       == IF Len(fields) > 6 THEN strip(fields[7]) ELSE None
                  used_percent == IF size_gb > 0 THEN percent_of(used_gb, size_gb) ELSE 0
                  status     == IF contains(attributes, "m") THEN <<"M","I","S","S","I","N","G">>
                                ELSE IF contains(attributes, "u") THEN <<"U","N","K","N","O","W","N">>
                                ELSE IF contains(attributes, "a") THEN <<"A","C","T","I","V","E">>
                                ELSE <<"I","N","A","C","T","I","V","E">>
              IN  <<[name |-> name, vg_name |-> vg_name, size_gb |-> size_gb,
                     free_gb |-> free_gb, used_percent |-> used_percent,
                     status |-> status, attributes |-> attributes,
                     dev_size |-> None, uuid |-> uuid]>>
         ELSE <<>>

\* LVMStateChecker.check_physical_volumes, given what _run_command returned
check_physical_volumes(output, rc) ==
    IF rc = 0 /\ output # <<>>
    THEN LET lines == output_lines(output)
         IN  flatten([i \in 1..Len(lines) |-> pv_of_line(lines[i])])
    ELSE <<>>

\* check_volume_groups, one line
vg_of_line(line) ==
    IF strip(line) = <<>> THEN <<>>
    ELSE LET fields == split(strip(line), "|") IN
         IF Len(fields) >= 6
         THEN LET name        == strip(fields[1])
                  size_gb     == _safe_float(fields[2], 0)
                  free_gb     == _safe_float(fields[3], 0)
                  attributes  == strip(fields[4])
                  pv_count    == _safe_int(fields[5], 0)
                  lv_count    == _safe_int(fields[6], 0)
                  uuid        == IF Len(fields) > 6 THEN strip(fields[7]) ELSE None
                  extent_size == IF Len(fields) > 7 THEN strip(fields[8]) ELSE None
                  free_percent == IF size_gb > 0 THEN percent_of(free_gb, size_gb) ELSE 0
              IN  <<[name |-> name, size_gb |-> size_gb, free_gb |-> free_gb,
                     free_percent |-> free_percent, pv_count |-> pv_count,
                     lv_count |-> lv_count, attributes |-> attributes,
                     uuid |-> uuid, extent_size |-> extent_size]>>
         ELSE <<>>

\* check_volume_groups with the `code == 0` test left out
check_volume_groups_any_code(output, rc) ==
    IF output # <<>>
    THEN LET lines == output_lines(output)
         IN  flatten([i \in 1..Len(lines) |-> vg_of_line(lines[i])])
    ELSE <<>>

\* LVMStateChecker.check_volume_groups
check_volume_groups(output, rc) ==
    IF rc = 0 /\ output # <<>>
    THEN LET lines == output_lines(output)
         IN  flatten([i \in 1..Len(lines) |-> vg_of_line(lines[i])])
    ELSE <<>>

\* check_logical_volumes, one line
lv_of_line(line) ==
    IF strip(line) = <<>> THEN <<>>
    ELSE LET fields == split(strip(line), "|") IN
         IF Len(fields) >= 4
         THEN LET name       == strip(fields[1])
                  vg_name    == strip(fields[2])
                  size_gb    == _safe_float(fields[3], 0)
                  attributes == strip(fields[4])
                  pool       == IF Len(fields) > 4 /\ strip(fields[5]) # <<>>
                                THEN strip(fields[5]) ELSE None
                  origin     == IF Len(fields) > 5 /\ strip(fields[6]) # <<>>
                                THEN strip(fields[6]) ELSE None
                  uuid       == IF Len(fields) > 6 THEN strip(fields[7]) ELSE None
                  segments   == IF Len(fields) > 7 THEN strip(fields[8]) ELSE None
                  lv_type    == IF contains(attributes, "t") THEN "THIN"
                                ELSE IF contains(attributes, "s") THEN "SNAPSHOT"
                                ELSE IF contains(attributes, "V") THEN "VIRTUAL"
                                ELSE IF contains(attributes, "m") THEN "MIRRORED"
                                ELSE IF contains(attributes, "r") THEN "RAID"
                                ELSE IF contains(attributes, "c") THEN "CACHE"
                                ELSE "NORMAL"
                  status     == IF contains(attributes, "s") THEN "SNAPSHOT"
                                ELSE IF contains(attributes, "a") THEN "ACTIVE"
                                ELSE "INACTIVE"
              IN  <<[name |-> name, vg_name |-> vg_name, size_gb |-> size_gb,
                     lv_type |-> lv_type, pool |-> pool, origin |-> origin,
                     status |-> status, attributes |-> attributes,
                     uuid |-> uuid, segments |-> segments]>>
         ELSE <<>>

\* LVMStateChecker.check_logical_volumes
check_logical_volumes(output, rc) ==
    IF rc = 0 /\ output # <<>>
    THEN LET lines == output_lines(output)
         IN  flatten([i \in 1..Len(lines) |-> lv_of_line(lines[i])])
    ELSE <<>>

\* check_thin_pools, one line
pool_of_line(line) ==
    IF strip(line) = <<>> THEN <<>>
    ELSE LET fields == split(strip(line), "|") IN
         IF Len(fields) >= 5 /\ contains(line, "t")
         THEN LET name             == strip(fields[1])
                  vg_name          == strip(fields[2])
                  data_percent     == _safe_float(fields[3], 0)
                  metadata_percent == _safe_float(fields[4], 0)
                  thin_count       == _safe_int(fields[5], 0)
                  uuid             == IF Len(fields) > 5 THEN strip(fields[6]) ELSE None
              IN  <<[name |-> name, vg_name |-> vg_name, data_percent |-> data_percent,
                     metadata_percent |-> metadata_percent, thin_count |-> thin_count,
                     lv_uuid |-> uuid]>>
         ELSE <<>>

\* LVMStateChecker.check_thin_pools
check_thin_pools(output, rc) ==
    IF rc = 0 /\ output # <<>>
    THEN LET lines == output_lines(output)
         IN  flatten([i \in 1..Len(lines) |-> pool_of_line(lines[i])])
    ELSE <<>>

\* the whitespace-delimited tokens of a text that does not start with whitespace
RECURSIVE tokens(_)
tokens(s) ==
    IF s = <<>> THEN <<>>
    ELSE LET ws == {i \in 1..Len(s) : s[i] \in Whitespace}
             k  == IF ws = {} THEN Len(s) + 1
                   ELSE CHOOSE i \in ws : \A j \in ws : i <= j
         IN  <<SubSeq(s, 1, k - 1)>> \o tokens(lstrip(SubSeq(s, k, Len(s))))

\* ^(/dev/(mapper|dm-\d+)[^\s]+) : the device token of a mount line
is_dm_device(tok) ==
    \/ /\ Len(tok) >= 12
       /\ SubSeq(tok, 1, 11) = <<"/","d","e","v","/","m","a","p","p","e","r">>
    \/ /\ Len(tok) >= 10
       /\ SubSeq(tok, 1, 8) = <<"/","d","e","v","/","d","m","-">>
       /\ IsDigit(tok[9])

\* check_lvm_mounts, one line: pattern.search(line), the pattern being
\* ^(/dev/(mapper|dm-\d+)[^\s]+)\s+on\s+([^\s]+)\s+type\s+([^\s]+)
mount_of_line(line) ==
    LET toks == tokens(line) IN
    IF /\ line # <<>> /\ line[1] \notin Whitespace
       /\ Len(toks) >= 5
       /\ is_dm_device(toks[1])
       /\ toks[2] = <<"o","n">>
       /\ toks[4] = <<"t","y","p","e">>
    THEN <<[device |-> toks[1], mount_point |-> toks[3], fs_type |-> toks[5]]>>
    ELSE <<>>

\* LVMStateChecker.check_lvm_mounts
check_lvm_mounts(output, rc) ==
    IF rc = 0 /\ output # <<>>
    THEN LET lines == output_lines(output)
         IN  flatten([i \in 1..Len(lines) |-> mount_of_line(lines[i])])
    ELSE <<>>

\* sep.join(parts) for a one-character sep
RECURSIVE join(_, _)
join(parts, sep) ==
    IF parts = <<>> THEN <<>>
    ELSE IF Len(parts) = 1 THEN parts[1]
    ELSE parts[1] \o <<sep>> \o join(Tail(parts), sep)

\* check_dm_devices, one line
dm_of_line(line) ==
    IF strip(line) = <<>> THEN <<>>
    ELSE LET parts == split(line, ":") IN
         IF Len(parts) >= 2
         THEN <<[name |-> strip(parts[1]), status |-> strip(join(Tail(parts), ":"))]>>
         ELSE <<>>

\* LVMStateChecker.check_dm_devices
check_dm_devices(output, rc) ==
    IF rc = 0 /\ output # <<>>
    THEN LET lines == output_lines(output)
         IN  flatten([i \in 1..Len(lines) |-> dm_of_line(lines[i])])
    ELSE <<>>

\* ------------------------------------------------------------------ metadata backup

\* The code-point order of the characters that occur in the modelled file names.
CharOrder == <<"-",".","0","1","2","3","4","5","6","7","8","9","_","a","b","c","d","e","f","g","h","i","j","k","l","m","n","o","p","q","r","s","t","u","v","w","x","y","z">>

CharRank(c) == CHOOSE k \in 1..Len(CharOrder) : CharOrder[k] = c

\* str < str
RECURSIVE str_less(_, _)
str_less(a, b) ==
    IF b = <<>> THEN FALSE
    ELSE IF a = <<>> THEN TRUE
    ELSE IF a[1] = b[1] THEN str_less(Tail(a), Tail(b))
    ELSE CharRank(a[1]) < CharRank(b[1])

\* sorted(names)
RECURSIVE sorted(_)
sorted(names) ==
    IF names = <<>> THEN <<>>
    ELSE LET k == CHOOSE i \in 1..Len(names) :
                      /\ \A j \in 1..Len(names) : ~str_less(names[j], names[i])
                      /\ \A j \in 1..(i - 1) : names[j] # names[i]
         IN  <<names[k]>> \o sorted([i \in 1..(Len(names) - 1) |->
                                        IF i < k THEN names[i] ELSE names[i + 1]])

\* seq[:n]
take(seq, n) == SubSeq(seq, 1, IF Len(seq) < n THEN Len(seq) ELSE n)

select_file_names(entries) ==
    LET keep == SelectSeq(entries, LAMBDA f : f.is_file /\ f.name[1] # ".")
    IN  [i \in 1..Len(keep) |-> keep[i].name]

\* check_lvm_metadata_backup, one directory.  `dir` is what the filesystem holds at
\* the path: state "missing" (exists() is False), "stat_error" (exists() raises),
\* "denied" (iterdir() raises PermissionError), "io_error" (iterdir() raises another
\* OSError) or "listed" (with its entries).
backup_dir_info(dir_path, dir_name, dir) ==
    LET blank == [path |-> dir_path, name |-> dir_name, exists |-> FALSE,
                  accessible |-> FALSE, file_count |-> 0, files |-> <<>>]
    IN  CASE dir.state = "listed" ->
               [blank EXCEPT !.exists = TRUE, !.accessible = TRUE,
                             !.file_count = Len(dir.entries),
                             !.files = take(sorted(select_file_names(dir.entries)), 10)]
          [] dir.state \in {"denied", "io_error"} -> [blank EXCEPT !.exists = TRUE]
          [] OTHER -> blank

backup_dirs ==
    << <<"/etc/lvm/backup", "backup">>, <<"/etc/lvm/archive", "archive">>,
       <<"/var/lib/lvm", "var_lib">> >>

RECURSIVE sum_counts(_)
sum_counts(infos) ==
    IF infos = <<>> THEN 0
    ELSE (IF Head(infos).accessible THEN Head(infos).file_count ELSE 0) + sum_counts(Tail(infos))

\* LVMStateChecker.check_lvm_metadata_backup; fs[i] is the state of backup_dirs[i]
check_lvm_metadata_backup(fs) ==
    LET infos == [i \in 1..Len(backup_dirs) |->
                     backup_dir_info(backup_dirs[i][1], backup_dirs[i][2], fs[i])]
    IN  [directories |-> infos,
         total_files |-> sum_counts(infos),
         accessible  |-> \A i \in 1..Len(backup_dirs) : fs[i].state # "denied"]

\* ------------------------------------------------------------------ health report

\* One issue or warning string, by the f-string that produces it:
\*   f"{level} {kind}: {name} (...)", with the status text or the percentage it embeds.
message(level, kind, name, reason, status, percent) ==
    [level |-> level, kind |-> kind, name |-> name, reason |-> reason,
     status |-> status, percent |-> percent]

\* f"{x.vg_name}/{x.name}"
qualified_name(x) == x.vg_name \o <<"/">> \o x.name

\* the body of `for pv in pvs`
report_pv(acc, pv) ==
    IF PhysicalVolume_lvm_status(pv) = "CRITICAL"
    THEN [acc EXCEPT !.issues = Append(@, message("Critical", "PV", pv.name, "status", pv.status, 0))]
    ELSE IF PhysicalVolume_lvm_status(pv) = "WARNING"
    THEN [acc EXCEPT !.warnings = Append(@, message("Warning", "PV", pv.name, "status", pv.status, 0))]
    ELSE acc

\* the body of `for vg in vgs` with <= where the code has <
report_vg_inclusive(acc, vg) ==
    IF VolumeGroup_lvm_status(vg) = "CRITICAL"
    THEN [acc EXCEPT !.issues = Append(@, message("Critical", "VG", vg.name, "partial/missing", <<>>, 0))]
    ELSE IF vg.free_percent <= 5 * Scale
    THEN [acc EXCEPT !.issues = Append(@, message("Critical", "VG", vg.name, "only % free", <<>>, vg.free_percent))]
    ELSE IF vg.free_percent <= 10 * Scale
    THEN [acc EXCEPT !.warnings = Append(@, message("Warning", "VG", vg.name, "low free space", <<>>, vg.free_percent))]
    ELSE acc

\* the body of `for vg in vgs`
report_vg(acc, vg) ==
    IF VolumeGroup_lvm_status(vg) = "CRITICAL"
    THEN [acc EXCEPT !.issues = Append(@, message("Critical", "VG", vg.name, "partial/missing", <<>>, 0))]
    ELSE IF vg.free_percent < 5 * Scale
    THEN [acc EXCEPT !.issues = Append(@, message("Critical", "VG", vg.name, "only % free", <<>>, vg.free_percent))]
    ELSE IF vg.free_percent < 10 * Scale
    THEN [acc EXCEPT !.warnings = Append(@, message("Warning", "VG", vg.name, "low free space", <<>>, vg.free_percent))]
    ELSE acc

\* the body of `for lv in lvs`
report_lv(acc, lv) ==
    IF LogicalVolume_lvm_status(lv) = "CRITICAL"
    THEN [acc EXCEPT !.issues = Append(@, message("Critical", "LV", qualified_name(lv), "inactive", <<>>, 0))]
    ELSE acc

\* the body of `for pool in thin_pools`
report_pool(acc, pool) ==
    IF ThinPool_lvm_status(pool) = "CRITICAL"
    THEN [acc EXCEPT !.issues = Append(@, message("Critical", "Thin Pool", qualified_name(pool), "over % used", <<>>, pool.data_percent))]
    ELSE IF ThinPool_lvm_status(pool) = "WARNING"
    THEN [acc EXCEPT !.warnings = Append(@, message("Warning", "Thin Pool", qualified_name(pool), "% used", <<>>, pool.data_percent))]
    ELSE acc

RECURSIVE report_pvs(_, _)
report_pvs(acc, xs) == IF xs = <<>> THEN acc ELSE report_pvs(report_pv(acc, Head(xs)), Tail(xs))

RECURSIVE report_vgs(_, _)
report_vgs(acc, xs) == IF xs = <<>> THEN acc ELSE report_vgs(report_vg(acc, Head(xs)), Tail(xs))

RECURSIVE report_lvs(_, _)
report_lvs(acc, xs) == IF xs = <<>> THEN acc ELSE report_lvs(report_lv(acc, Head(xs)), Tail(xs))

RECURSIVE report_pools(_, _)
report_pools(acc, xs) == IF xs = <<>> THEN acc ELSE report_pools(report_pool(acc, Head(xs)), Tail(xs))

\* generate_health_report with the volume-group loop ahead of the physical-volume loop
generate_health_report_vgs_first(the_pvs, the_vgs, the_lvs, the_pools) ==
    report_pools(
        report_lvs(
            report_pvs(
                report_vgs([issues |-> <<>>, warnings |-> <<>>], the_vgs),
                the_pvs),
            the_lvs),
        the_pools)

\* LVMStateChecker.generate_health_report
generate_health_report(the_pvs, the_vgs, the_lvs, the_pools) ==
    report_pools(
        report_lvs(
            report_vgs(
                report_pvs([issues |-> <<>>, warnings |-> <<>>], the_pvs),
                the_vgs),
            the_lvs),
        the_pools)

\* LVMStateChecker.display_summary: the "Overall Status" it prints
display_summary(the_issues, the_warnings) ==
    IF the_issues # <<>> THEN "CRITICAL"
    ELSE IF the_warnings # <<>> THEN "WARNING"
    ELSE "HEALTHY"

\* LVMStateChecker.health_check before run_full_check has built the snapshot
NoHealthCheck == [none |-> TRUE]

\* overall_status with the loop over thin_pools left out
critical_components_without_pools(hc) ==
    LET crit_pvs   == SelectSeq(hc.pvs, LAMBDA pv : PhysicalVolume_lvm_status(pv) = "CRITICAL")
        crit_vgs   == SelectSeq(hc.vgs, LAMBDA vg : VolumeGroup_lvm_status(vg) = "CRITICAL")
        crit_lvs   == SelectSeq(hc.lvs, LAMBDA lv : LogicalVolume_lvm_status(lv) = "CRITICAL")
    IN  [i \in 1..Len(crit_pvs) |-> <<"PV", crit_pvs[i].name>>]
        \o [i \in 1..Len(crit_vgs) |-> <<"VG", crit_vgs[i].name>>]
        \o [i \in 1..Len(crit_lvs) |-> <<"LV", qualified_name(crit_lvs[i])>>]

\* LVMHealthCheck.overall_status: the critical_components list it collects
critical_components(hc) ==
    LET crit_pvs   == SelectSeq(hc.pvs, LAMBDA pv : PhysicalVolume_lvm_status(pv) = "CRITICAL")
        crit_vgs   == SelectSeq(hc.vgs, LAMBDA vg : VolumeGroup_lvm_status(vg) = "CRITICAL")
        crit_lvs   == SelectSeq(hc.lvs, LAMBDA lv : LogicalVolume_lvm_status(lv) = "CRITICAL")
        crit_pools == SelectSeq(hc.thin_pools, LAMBDA pool : ThinPool_lvm_status(pool) = "CRITICAL")
    IN  [i \in 1..Len(crit_pvs) |-> <<"PV", crit_pvs[i].name>>]
        \o [i \in 1..Len(crit_vgs) |-> <<"VG", crit_vgs[i].name>>]
        \o [i \in 1..Len(crit_lvs) |-> <<"LV", qualified_name(crit_lvs[i])>>]
        \o [i \in 1..Len(crit_pools) |-> <<"Pool", qualified_name(crit_pools[i])>>]

\* LVMHealthCheck.overall_status
overall_status(hc) ==
    IF critical_components(hc) # <<>> THEN "CRITICAL"
    ELSE IF hc.warnings # <<>> THEN "WARNING"
    ELSE "HEALTHY"

\* main with the codes of WARNING and CRITICAL exchanged
main_exit_code_swapped(status) ==
    IF status = "CRITICAL" THEN 1
    ELSE IF status = "WARNING" THEN 2
    ELSE 0

\* main: the exit code for a snapshot's overall status
main_exit_code(status) ==
    IF status = "CRITICAL" THEN 2
    ELSE IF status = "WARNING" THEN 1
    ELSE 0

\* ------------------------------------------------------------------ external commands

\* LVMStateChecker._run_command: what it returns for each way subprocess.run ends.
\* `outcome` is [kind |-> "exit", stdout, returncode], [kind |-> "timeout"] or
\* [kind |-> "error"] (the launch failed).
_run_command(outcome) ==
    CASE outcome.kind = "exit"    -> <<strip(outcome.stdout), outcome.returncode>>
      [] outcome.kind = "timeout" -> <<<<"C","o","m","m","a","n","d"," ","t","i","m","e","d"," ","o","u","t"," ","a","f","t","e","r"," ","3","0","s">>, 124>>
      [] OTHER                    -> <<<<"C","o","m","m","a","n","d"," ","f","a","i","l","e","d",":"," ","[","E","r","r","n","o"," ","2","]">>, 1>>

\* The ways a command that prints one of `stdouts` can end.
ProcessOutcomes(stdouts) ==
    {[kind |-> "exit", stdout |-> o, returncode |-> r] : o \in stdouts, r \in {0, 5}}
    \cup {[kind |-> "timeout"], [kind |-> "error"]}

\* `which lvm`
WhichOutcomes ==
    {[kind |-> "exit", stdout |-> <<"/","u","s","r","/","s","b","i","n","/","l","v","m","\n">>, returncode |-> 0],
     [kind |-> "exit", stdout |-> <<>>, returncode |-> 0],
     [kind |-> "exit", stdout |-> <<>>, returncode |-> 1],
     [kind |-> "timeout"], [kind |-> "error"]}

\* LVMStateChecker.check_lvm_installation, given what `which lvm` returned
check_lvm_installation(output, rc) == ~(rc # 0 \/ output = <<>>)

\* `pvs ... -o pv_name,vg_name,pv_size,pv_free,pv_used,pv_attr,pv_uuid`
PvStdouts ==
    { <<>>,
      \* "  sda|vg0|100.00|50.00|50.00|a--|uuid1\n"
      <<" "," ","s","d","a","|","v","g","0","|","1","0","0",".","0","0","|","5","0",".","0","0","|","5","0",".","0","0","|","a","-","-","|","u","u","i","d","1","\n">>,
      \* "  sda|vg0|100.00|50.00|50.00|a--|u1\n  sdb||10.00|10.00|0|---|u2\n"
      <<" "," ","s","d","a","|","v","g","0","|","1","0","0",".","0","0","|","5","0",".","0","0","|","5","0",".","0","0","|","a","-","-","|","u","1","\n"," "," ","s","d","b","|","|","1","0",".","0","0","|","1","0",".","0","0","|","0","|","-","-","-","|","u","2","\n">>,
      \* "  sda|vg0|100.00|0|100.00|a-m|u1\n  sdb|vg0|10.00|10.00|0|---|u2\n  sdc|vg0|10.00|10.00|0|a--|u3\n"
      <<" "," ","s","d","a","|","v","g","0","|","1","0","0",".","0","0","|","0","|","1","0","0",".","0","0","|","a","-","m","|","u","1","\n"," "," ","s","d","b","|","v","g","0","|","1","0",".","0","0","|","1","0",".","0","0","|","0","|","-","-","-","|","u","2","\n"," "," ","s","d","c","|","v","g","0","|","1","0",".","0","0","|","1","0",".","0","0","|","0","|","a","-","-","|","u","3","\n">> }

\* `vgs ... -o vg_name,vg_size,vg_free,vg_attr,pv_count,lv_count,vg_uuid,vg_extent_size`
VgStdouts ==
    { <<>>,
      \* "  vg0|100.00|15.00|wz--n-|1|2|uv0|4.00\n"
      <<" "," ","v","g","0","|","1","0","0",".","0","0","|","1","5",".","0","0","|","w","z","-","-","n","-","|","1","|","2","|","u","v","0","|","4",".","0","0","\n">>,
      \* "  vg0|100.00|4.90|wz--n-|1|2|u0|4.00\n  vg2|100.00|15.00|wz--n-|1|2|u2|4.00\n"
      <<" "," ","v","g","0","|","1","0","0",".","0","0","|","4",".","9","0","|","w","z","-","-","n","-","|","1","|","2","|","u","0","|","4",".","0","0","\n"," "," ","v","g","2","|","1","0","0",".","0","0","|","1","5",".","0","0","|","w","z","-","-","n","-","|","1","|","2","|","u","2","|","4",".","0","0","\n">>,
      \* "  vg0|100.00|3.00|wz--n-|1|2|u0|4.00\n  vg1|100.00|50.00|wz-pn-|2|2|u1|4.00\n  vg2|100.00|9,50|wz--n-|1|2|u2|4.00\n"
      <<" "," ","v","g","0","|","1","0","0",".","0","0","|","3",".","0","0","|","w","z","-","-","n","-","|","1","|","2","|","u","0","|","4",".","0","0","\n"," "," ","v","g","1","|","1","0","0",".","0","0","|","5","0",".","0","0","|","w","z","-","p","n","-","|","2","|","2","|","u","1","|","4",".","0","0","\n"," "," ","v","g","2","|","1","0","0",".","0","0","|","9",",","5","0","|","w","z","-","-","n","-","|","1","|","2","|","u","2","|","4",".","0","0","\n">> }

\* `lvs ... -o lv_name,vg_name,lv_size,lv_attr,pool_lv,origin,lv_uuid,segments`
LvStdouts ==
    { <<>>,
      \* "  root|vg0|10.00|-wi-ao----|||ul0|1\n"
      <<" "," ","r","o","o","t","|","v","g","0","|","1","0",".","0","0","|","-","w","i","-","a","o","-","-","-","-","|","|","|","u","l","0","|","1","\n">>,
      \* "  th1|vg0|5.00|Vwi-a-tz--|tp0||u1|1\n  mir|vg0|1.00|mwi-a-m---|||u2|1\n"
      <<" "," ","t","h","1","|","v","g","0","|","5",".","0","0","|","V","w","i","-","a","-","t","z","-","-","|","t","p","0","|","|","u","1","|","1","\n"," "," ","m","i","r","|","v","g","0","|","1",".","0","0","|","m","w","i","-","a","-","m","-","-","-","|","|","|","u","2","|","1","\n">>,
      \* "  mir|vg0|1.00|mwi-a-m---\n  root|vg0|10.00|-wi-------|||u1|1\n  snap|vg0|1.00|swi-a-s---||root|u2|1\n  old|vg1|1.00|-wi-------|||u3|1\n"
      <<" "," ","m","i","r","|","v","g","0","|","1",".","0","0","|","m","w","i","-","a","-","m","-","-","-","\n"," "," ","r","o","o","t","|","v","g","0","|","1","0",".","0","0","|","-","w","i","-","-","-","-","-","-","-","|","|","|","u","1","|","1","\n"," "," ","s","n","a","p","|","v","g","0","|","1",".","0","0","|","s","w","i","-","a","-","s","-","-","-","|","|","r","o","o","t","|","u","2","|","1","\n"," "," ","o","l","d","|","v","g","1","|","1",".","0","0","|","-","w","i","-","-","-","-","-","-","-","|","|","|","u","3","|","1","\n">> }

\* `lvs ... -o lv_name,vg_name,data_percent,metadata_percent,thin_count,lv_uuid`
PoolStdouts ==
    { <<>>,
      \* "  tp0|vg0|50.00|10.00|2|ut0\n"
      <<" "," ","t","p","0","|","v","g","0","|","5","0",".","0","0","|","1","0",".","0","0","|","2","|","u","t","0","\n">>,
      \* "  tp0|vg0|85.00|10.00|2|ut0\n  tp1|vg0|50.00|85.00|1|ut1\n"
      <<" "," ","t","p","0","|","v","g","0","|","8","5",".","0","0","|","1","0",".","0","0","|","2","|","u","t","0","\n"," "," ","t","p","1","|","v","g","0","|","5","0",".","0","0","|","8","5",".","0","0","|","1","|","u","t","1","\n">>,
      \* "  tp0|vg0|85.00|10.00|2|ut0\n  tp1|vg0|95.00|10.00|2|ut1\n  tp2|vg0|10.00|95.00|1|ut2\n"
      <<" "," ","t","p","0","|","v","g","0","|","8","5",".","0","0","|","1","0",".","0","0","|","2","|","u","t","0","\n"," "," ","t","p","1","|","v","g","0","|","9","5",".","0","0","|","1","0",".","0","0","|","2","|","u","t","1","\n"," "," ","t","p","2","|","v","g","0","|","1","0",".","0","0","|","9","5",".","0","0","|","1","|","u","t","2","\n">> }

\* `mount`
MountStdouts ==
    { <<>>,
      \* "/dev/sda1 on /boot type ext4 (rw)\n/dev/mapper/vg0-root on / type ext4 (rw)\n/dev/dm-12 on /b type xfs (rw)\n/dev/dm-3 on /c type xfs (rw)\n"
      <<"/","d","e","v","/","s","d","a","1"," ","o","n"," ","/","b","o","o","t"," ","t","y","p","e"," ","e","x","t","4"," ","(","r","w",")","\n","/","d","e","v","/","m","a","p","p","e","r","/","v","g","0","-","r","o","o","t"," ","o","n"," ","/"," ","t","y","p","e"," ","e","x","t","4"," ","(","r","w",")","\n","/","d","e","v","/","d","m","-","1","2"," ","o","n"," ","/","b"," ","t","y","p","e"," ","x","f","s"," ","(","r","w",")","\n","/","d","e","v","/","d","m","-","3"," ","o","n"," ","/","c"," ","t","y","p","e"," ","x","f","s"," ","(","r","w",")","\n">> }

\* `dmsetup status`
DmStdouts ==
    \* "No devices found\n"
    { <<"N","o"," ","d","e","v","i","c","e","s"," ","f","o","u","n","d","\n">>,
      \* "vg0-root: 0 100 linear\nvg0-tp0: 0 10 thin-pool 1 2/3 4:5 rw\n"
      <<"v","g","0","-","r","o","o","t",":"," ","0"," ","1","0","0"," ","l","i","n","e","a","r","\n","v","g","0","-","t","p","0",":"," ","0"," ","1","0"," ","t","h","i","n","-","p","o","o","l"," ","1"," ","2","/","3"," ","4",":","5"," ","r","w","\n">> }

\* What the three backup directories can hold.
BackupDirStates ==
    { [state |-> "missing", entries |-> <<>>],
      [state |-> "stat_error", entries |-> <<>>],
      [state |-> "denied", entries |-> <<>>],
      [state |-> "io_error", entries |-> <<>>],
      [state |-> "listed", entries |-> <<>>],
      [state |-> "listed",
       entries |-> << [name |-> <<"v","g","1">>, is_file |-> TRUE], [name |-> <<".","c","a","c","h","e">>, is_file |-> TRUE],
                      [name |-> <<"v","g","0">>, is_file |-> TRUE], [name |-> <<"o","l","d">>, is_file |-> FALSE] >>] }

\* The filesystems of the modelled runs, one state per backup directory: the three
\* directories alike, or the first listed, the second denied and the third missing.
BackupFilesystems ==
    {fs \in [1..3 -> BackupDirStates] :
        \/ fs[1] = fs[2] /\ fs[2] = fs[3]
        \/ fs[1].state = "listed" /\ fs[1].entries # <<>> /\ fs[2].state = "denied"
           /\ fs[3].state = "missing"}

\* ------------------------------------------------------------------ the run of main()

\* The locals of a check_* method once it has returned.
NoOutput == <<>>
NoCode == 0 - 1

\* After LVMStateChecker.__init__: main is about to call run_full_check.
Init ==
    /\ pc = "check_lvm_installation"
    /\ stdout = NoOutput
    /\ code = NoCode
    /\ pvs = <<>>
    /\ vgs = <<>>
    /\ lvs = <<>>
    /\ thin_pools = <<>>
    /\ mounts = <<>>
    /\ dm_devices = <<>>
    /\ metadata_backup = [directories |-> <<>>, total_files |-> 0, accessible |-> TRUE]
    /\ issues = <<>>
    /\ warnings = <<>>
    /\ summary_status = "NONE"
    /\ health_check = NoHealthCheck
    /\ exit_code = NoCode

\* run_full_check: `if not self.check_lvm_installation(): sys.exit(1)`.  The
\* `lvm version` command that follows a found tool only prints a line.
CheckLvmInstallation ==
    /\ pc = "check_lvm_installation"
    /\ \E outcome \in WhichOutcomes :
          LET r == _run_command(outcome) IN
          /\ stdout' = r[1]
          /\ code' = r[2]
          /\ IF check_lvm_installation(r[1], r[2])
             THEN pc' = "check_physical_volumes" /\ exit_code' = exit_code
             ELSE pc' = "exited" /\ exit_code' = 1
    /\ UNCHANGED <<pvs, vgs, lvs, thin_pools, mounts, dm_devices, metadata_backup,
                   issues, warnings, summary_status, health_check>>

\* run_full_check: pvs = self.check_physical_volumes()
CheckPhysicalVolumes ==
    /\ pc = "check_physical_volumes"
    /\ \E outcome \in ProcessOutcomes(PvStdouts) :
          LET r == _run_command(outcome) IN
          /\ stdout' = r[1]
          /\ code' = r[2]
          /\ pvs' = check_physical_volumes(r[1], r[2])
    /\ pc' = "check_volume_groups"
    /\ UNCHANGED <<vgs, lvs, thin_pools, mounts, dm_devices, metadata_backup,
                   issues, warnings, summary_status, health_check, exit_code>>

\* run_full_check: vgs = self.check_volume_groups()
CheckVolumeGroups ==
    /\ pc = "check_volume_groups"
    /\ \E outcome \in ProcessOutcomes(VgStdouts) :
          LET r == _run_command(outcome) IN
          /\ stdout' = r[1]
          /\ code' = r[2]
          /\ vgs' = check_volume_groups(r[1], r[2])
    /\ pc' = "check_logical_volumes"
    /\ UNCHANGED <<pvs, lvs, thin_pools, mounts, dm_devices, metadata_backup,
                   issues, warnings, summary_status, health_check, exit_code>>

\* run_full_check: lvs = self.check_logical_volumes()
CheckLogicalVolumes ==
    /\ pc = "check_logical_volumes"
    /\ \E outcome \in ProcessOutcomes(LvStdouts) :
          LET r == _run_command(outcome) IN
          /\ stdout' = r[1]
          /\ code' = r[2]
          /\ lvs' = check_logical_volumes(r[1], r[2])
    /\ pc' = "check_thin_pools"
    /\ UNCHANGED <<pvs, vgs, thin_pools, mounts, dm_devices, metadata_backup,
                   issues, warnings, summary_status, health_check, exit_code>>

\* run_full_check: thin_pools = self.check_thin_pools()
CheckThinPools ==
    /\ pc = "check_thin_pools"
    /\ \E outcome \in ProcessOutcomes(PoolStdouts) :
          LET r == _run_command(outcome) IN
          /\ stdout' = r[1]
          /\ code' = r[2]
          /\ thin_pools' = check_thin_pools(r[1], r[2])
    /\ pc' = "check_lvm_mounts"
    /\ UNCHANGED <<pvs, vgs, lvs, mounts, dm_devices, metadata_backup,
                   issues, warnings, summary_status, health_check, exit_code>>

\* run_full_check: mounts = self.check_lvm_mounts()
CheckLvmMounts ==
    /\ pc = "check_lvm_mounts"
    /\ \E outcome \in ProcessOutcomes(MountStdouts) :
          LET r == _run_command(outcome) IN
          /\ stdout' = r[1]
          /\ code' = r[2]
          /\ mounts' = check_lvm_mounts(r[1], r[2])
    /\ pc' = "check_dm_devices"
    /\ UNCHANGED <<pvs, vgs, lvs, thin_pools, dm_devices, metadata_backup,
                   issues, warnings, summary_status, health_check, exit_code>>

\* run_full_check: dm_devices = self.check_dm_devices()
CheckDmDevices ==
    /\ pc = "check_dm_devices"
    /\ \E outcome \in ProcessOutcomes(DmStdouts) :
          LET r == _run_command(outcome) IN
          /\ stdout' = r[1]
          /\ code' = r[2]
          /\ dm_devices' = check_dm_devices(r[1], r[2])
    /\ pc' = "check_lvm_metadata_backup"
    /\ UNCHANGED <<pvs, vgs, lvs, thin_pools, mounts, metadata_backup,
                   issues, warnings, summary_status, health_check, exit_code>>

\* run_full_check: metadata_backup = self.check_lvm_metadata_backup(); it runs no command
CheckLvmMetadataBackup ==
    /\ pc = "check_lvm_metadata_backup"
    /\ \E fs \in BackupFilesystems : metadata_backup' = check_lvm_metadata_backup(fs)
    /\ stdout' = NoOutput
    /\ code' = NoCode
    /\ pc' = "generate_health_report"
    /\ UNCHANGED <<pvs, vgs, lvs, thin_pools, mounts, dm_devices,
                   issues, warnings, summary_status, health_check, exit_code>>

\* run_full_check: issues, warnings = self.generate_health_report(pvs, vgs, lvs, thin_pools)
GenerateHealthReport ==
    /\ pc = "generate_health_report"
    /\ LET r == generate_health_report(pvs, vgs, lvs, thin_pools) IN
          /\ issues' = r.issues
          /\ warnings' = r.warnings
    /\ pc' = "display_summary"
    /\ UNCHANGED <<stdout, code, pvs, vgs, lvs, thin_pools, mounts, dm_devices,
                   metadata_backup, summary_status, health_check, exit_code>>

\* run_full_check: the display_* calls, which only print; display_summary prints a verdict
DisplaySummary ==
    /\ pc = "display_summary"
    /\ summary_status' = display_summary(issues, warnings)
    /\ pc' = "build_health_check"
    /\ UNCHANGED <<stdout, code, pvs, vgs, lvs, thin_pools, mounts, dm_devices,
                   metadata_backup, issues, warnings, health_check, exit_code>>

\* run_full_check: self.health_check = LVMHealthCheck(...); return self.health_check
BuildHealthCheck ==
    /\ pc = "build_health_check"
    /\ health_check' = [pvs |-> pvs, vgs |-> vgs, lvs |-> lvs, thin_pools |-> thin_pools,
                        mounts |-> mounts, dm_devices |-> dm_devices,
                        metadata_backup |-> metadata_backup,
                        issues |-> issues, warnings |-> warnings]
    /\ pc' = "main_exit"
    /\ UNCHANGED <<stdout, code, pvs, vgs, lvs, thin_pools, mounts, dm_devices,
                   metadata_backup, issues, warnings, summary_status, exit_code>>

\* main: sys.exit(exit_code) after run_full_check returned.  The exports that
\* --json and --prometheus add catch their own errors and change nothing here.
MainExit ==
    /\ pc = "main_exit"
    /\ exit_code' = main_exit_code(overall_status(health_check))
    /\ pc' = "exited"
    /\ UNCHANGED <<stdout, code, pvs, vgs, lvs, thin_pools, mounts, dm_devices,
                   metadata_backup, issues, warnings, summary_status, health_check>>

Next ==
    \/ CheckLvmInstallation
    \/ CheckPhysicalVolumes
    \/ CheckVolumeGroups
    \/ CheckLogicalVolumes
    \/ CheckThinPools
    \/ CheckLvmMounts
    \/ CheckDmDevices
    \/ CheckLvmMetadataBackup
    \/ GenerateHealthReport
    \/ DisplaySummary
    \/ BuildHealthCheck
    \/ MainExit

Spec == Init /\ [][Next]_vars

\* The run is single-threaded and every step returns (a command is cut off by its
\* timeout), so a step that can be taken is taken.
FairSpec == Spec /\ WF_vars(Next)

\* ------------------------------------------------------------------ the parsers, listing by listing

\* The longest listing assembled from SampleLines.
MaxLines == 2

\* Lines a listing command can print: blank, short, indented, with empty fields.
SampleLines ==
    { <<>>,
      <<" "," "," ">>,
      <<"a","|","b","|","c">>,
      \* "  sda|vg0|100.00|50.00|50.00|a--|u1"
      <<" "," ","s","d","a","|","v","g","0","|","1","0","0",".","0","0","|","5","0",".","0","0","|","5","0",".","0","0","|","a","-","-","|","u","1">>,
      \* "sdb| |1,5|0|0|-m-|"
      <<"s","d","b","|"," ","|","1",",","5","|","0","|","0","|","-","m","-","|">>,
      \* "mir|vg0|1.00|mwi-a-m"
      <<"m","i","r","|","v","g","0","|","1",".","0","0","|","m","w","i","-","a","-","m">>,
      \* "lv0|vg0|5.00|twi-a-|tp0"
      <<"l","v","0","|","v","g","0","|","5",".","0","0","|","t","w","i","-","a","-","|","t","p","0">>,
      <<"x","|","y","|","1","|","2","|","3">>,
      \* "  th1|vg0|5.00|Vwi-a-t|tp0||u1|"
      <<" "," ","t","h","1","|","v","g","0","|","5",".","0","0","|","V","w","i","-","a","-","t","|","t","p","0","|","|","u","1","|">> }

\* the text of a listing: its lines, each ended by a newline
RECURSIVE listing(_)
listing(lines) == IF lines = <<>> THEN <<>> ELSE Head(lines) \o <<"\n">> \o listing(Tail(lines))

SampleListings == UNION {[1..k -> SampleLines] : k \in 0..MaxLines}

\* Percentages as the listings print them, around the thresholds 80 and 90.
PercentTexts ==
    { <<>>, <<"0",".","0","0">>, <<"7","9",".","9","9">>, <<"8","0",".","0","0">>, <<"8","0",".","0","1">>, <<"8","5",",","5","0">>,
      <<"9","0",".","0","0">>, <<"9","0",".","0","1">>, <<"9","5",".","0","0">>, <<"1","0","0",".","0","0">> }

\* One thin pool per (data, metadata) pair.
PoolListings ==
    { << <<"t","p","0","|","v","g","0","|">> \o d \o <<"|">> \o m \o <<"|","2","|","u","t","0">> >> : d \in PercentTexts, m \in PercentTexts }

\* Free space of a 100.00 g volume group, around the thresholds 5 % and 10 %.
FreeTexts ==
    { <<"0">>, <<"4",".","9","0">>, <<"4",".","9","9">>, <<"5",".","0","0">>, <<"7",".","0","0">>, <<"9",".","9","9">>, <<"1","0",".","0","0">>, <<"1","5",".","0","0">> }

vg_line(name, size, free, attr) ==
    name \o <<"|">> \o size \o <<"|">> \o free \o <<"|">> \o attr \o <<"|","1","|","2","|","u","v","|","4",".","0","0">>

\* One or two volume groups: the first of any size and flags, the second sound.
VgListings ==
    LET first  == { vg_line(<<"v","g","a">>, size, free, attr) :
                       size \in {<<"1","0","0",".","0","0">>, <<"0">>}, free \in FreeTexts,
                       attr \in {<<"w","z","-","-","n","-">>, <<"w","z","-","p","n","-">>, <<"w","z","x","-","n","-">>} }
        second == { vg_line(<<" "," ","v","g","b">>, <<"1","0","0",".","0","0">>, free, <<"w","z","-","-","n","-">>) : free \in FreeTexts }
    IN  { <<a>> : a \in first } \cup { <<a, b>> : a \in first, b \in second }

\* Lines of the mount table: device-mapper paths of both forms, other devices,
\* and lines that are not of the form "<device> on <mount point> type <fs>".
MountLines ==
    \* "/dev/mapper/vg0-root on / type ext4 (rw)"
    { <<"/","d","e","v","/","m","a","p","p","e","r","/","v","g","0","-","r","o","o","t"," ","o","n"," ","/"," ","t","y","p","e"," ","e","x","t","4"," ","(","r","w",")">>,
      \* "/dev/dm-3 on /c type xfs (rw)"
      <<"/","d","e","v","/","d","m","-","3"," ","o","n"," ","/","c"," ","t","y","p","e"," ","x","f","s"," ","(","r","w",")">>,
      \* "/dev/dm-12 on /b type xfs"
      <<"/","d","e","v","/","d","m","-","1","2"," ","o","n"," ","/","b"," ","t","y","p","e"," ","x","f","s">>,
      \* "/dev/sda1 on /boot type ext4 (rw)"
      <<"/","d","e","v","/","s","d","a","1"," ","o","n"," ","/","b","o","o","t"," ","t","y","p","e"," ","e","x","t","4"," ","(","r","w",")">>,
      \* "/dev/mapperx on /m type xfs (rw)"
      <<"/","d","e","v","/","m","a","p","p","e","r","x"," ","o","n"," ","/","m"," ","t","y","p","e"," ","x","f","s"," ","(","r","w",")">>,
      \* "/dev/dm-1x on /d type xfs (rw)"
      <<"/","d","e","v","/","d","m","-","1","x"," ","o","n"," ","/","d"," ","t","y","p","e"," ","x","f","s"," ","(","r","w",")">>,
      \* "/dev/mapper/vg0-a on /x"
      <<"/","d","e","v","/","m","a","p","p","e","r","/","v","g","0","-","a"," ","o","n"," ","/","x">>,
      \* "tmpfs on /dev/mapper/t type tmpfs (rw)"
      <<"t","m","p","f","s"," ","o","n"," ","/","d","e","v","/","m","a","p","p","e","r","/","t"," ","t","y","p","e"," ","t","m","p","f","s"," ","(","r","w",")">> }

MountListings == UNION {[1..k -> MountLines] : k \in 1..MaxLines}

\* The texts of a size field: every string of up to MaxTextLen characters out of
\* digits, both decimal separators, a sign, a blank and a letter.
MaxTextLen == 3

FloatChars == {"1", "5", ",", ".", " ", "-", "a"}

FloatTexts == UNION {[1..k -> FloatChars] : k \in 0..MaxTextLen}

\* a pvs line whose size field (fields[2]) is the text
pv_size_line(text) == <<"s","d","a","|","v","g","0","|">> \o SubSeq(text, 1, Len(text)) \o <<"|","0","|","0","|","a","-","-","|","u","1">>

FloatListings == {<<pv_size_line(text)>> : text \in FloatTexts}

\* Attribute flags of a physical volume: allocatable, missing, unknown, in every
\* combination the status rules tell apart, and flags with none of them.
PvAttrTexts ==
    { <<"a","-","-">>, <<"-","-","-">>, <<"-","m","-">>, <<"a","m","-">>, <<"u","-","-">>, <<"a","u","-">>, <<"-","m","u">>, <<"a","m","u">>, <<"A","-","-">>, <<>> }

\* a pvs line with these attribute flags (fields[5])
pv_attr_line(attr) == <<"s","d","a","|","v","g","0","|","1","0",".","0","0","|","5",".","0","0","|","5",".","0","0","|">> \o attr \o <<"|","u","1">>

PvListings == {<<pv_attr_line(attr)>> : attr \in PvAttrTexts}

\* Attribute flags of a volume group: with the partial marker, the exported marker,
\* both, neither, upper-case letters only, and no flags at all.
VgAttrTexts ==
    { <<"w","z","-","-","n","-">>, <<"w","z","-","p","n","-">>, <<"w","z","x","-","n","-">>, <<"w","z","x","p","n","-">>, <<"r","-","-","-","-","-">>, <<"W","Z","X","P","N","-">>, <<>> }

VgAttrListings == {<<vg_line(<<"v","g","a">>, <<"1","0","0",".","0","0">>, <<"1","5",".","0","0">>, attr)>> : attr \in VgAttrTexts}

\* Lines of the lvs listing: a thin volume in its pool, a snapshot of a thin volume
\* (pool and origin both printed), a cached volume (pool_lv is its cache pool), a
\* classic snapshot, and a plain volume.
LvLines ==
    \* "th1|vg0|5.00|Vwi-a-tz--|thinpool0||u1|1"
    { <<"t","h","1","|","v","g","0","|","5",".","0","0","|","V","w","i","-","a","-","t","z","-","-","|","t","h","i","n","p","o","o","l","0","|","|","u","1","|","1">>,
      \* "ts1|vg0|5.00|Vwi-a-tz-k|thinpool0|th1|u2|1"
      <<"t","s","1","|","v","g","0","|","5",".","0","0","|","V","w","i","-","a","-","t","z","-","k","|","t","h","i","n","p","o","o","l","0","|","t","h","1","|","u","2","|","1">>,
      \* "cv0|vg0|5.00|Cwi-a-C---|cpool0||u3|1"
      <<"c","v","0","|","v","g","0","|","5",".","0","0","|","C","w","i","-","a","-","C","-","-","-","|","c","p","o","o","l","0","|","|","u","3","|","1">>,
      \* "snap|vg0|1.00|swi-a-s---||root|u4|1"
      <<"s","n","a","p","|","v","g","0","|","1",".","0","0","|","s","w","i","-","a","-","s","-","-","-","|","|","r","o","o","t","|","u","4","|","1">>,
      \* "root|vg0|5.00|-wi-ao----|||u5|1"
      <<"r","o","o","t","|","v","g","0","|","5",".","0","0","|","-","w","i","-","a","o","-","-","-","-","|","|","|","u","5","|","1">> }

LvListings == {<<line>> : line \in LvLines}

ParseListings ==
    SampleListings \cup PoolListings \cup VgListings \cup MountListings \cup FloatListings
        \cup PvListings \cup VgAttrListings \cup LvListings

\* A listing command has exited 0 and _run_command has returned its output.
ParseInit ==
    /\ pc = "parse"
    /\ \E lines \in ParseListings :
          stdout = _run_command([kind |-> "exit", stdout |-> listing(lines), returncode |-> 0])[1]
    /\ code = 0
    /\ pvs = <<>>
    /\ vgs = <<>>
    /\ lvs = <<>>
    /\ thin_pools = <<>>
    /\ mounts = <<>>
    /\ dm_devices = <<>>
    /\ metadata_backup = [directories |-> <<>>, total_files |-> 0, accessible |-> TRUE]
    /\ issues = <<>>
    /\ warnings = <<>>
    /\ summary_status = "NONE"
    /\ health_check = NoHealthCheck
    /\ exit_code = NoCode

\* the loop of check_physical_volumes over the output
ParsePhysicalVolumes ==
    /\ pc = "parse"
    /\ pvs' = check_physical_volumes(stdout, code)
    /\ pc' = "parsed_pvs"
    /\ UNCHANGED <<stdout, code, vgs, lvs, thin_pools, mounts, dm_devices, metadata_backup,
                   issues, warnings, summary_status, health_check, exit_code>>

\* the loop of check_volume_groups over the output
ParseVolumeGroups ==
    /\ pc = "parse"
    /\ vgs' = check_volume_groups(stdout, code)
    /\ pc' = "parsed_vgs"
    /\ UNCHANGED <<stdout, code, pvs, lvs, thin_pools, mounts, dm_devices, metadata_backup,
                   issues, warnings, summary_status, health_check, exit_code>>

\* the loop of check_logical_volumes over the output
ParseLogicalVolumes ==
    /\ pc = "parse"
    /\ lvs' = check_logical_volumes(stdout, code)
    /\ pc' = "parsed_lvs"
    /\ UNCHANGED <<stdout, code, pvs, vgs, thin_pools, mounts, dm_devices, metadata_backup,
                   issues, warnings, summary_status, health_check, exit_code>>

\* the loop of check_thin_pools over the output
ParseThinPools ==
    /\ pc = "parse"
    /\ thin_pools' = check_thin_pools(stdout, code)
    /\ pc' = "parsed_pools"
    /\ UNCHANGED <<stdout, code, pvs, vgs, lvs, mounts, dm_devices, metadata_backup,
                   issues, warnings, summary_status, health_check, exit_code>>

\* the loop of check_lvm_mounts over the output
ParseMounts ==
    /\ pc = "parse"
    /\ mounts' = check_lvm_mounts(stdout, code)
    /\ pc' = "parsed_mounts"
    /\ UNCHANGED <<stdout, code, pvs, vgs, lvs, thin_pools, dm_devices, metadata_backup,
                   issues, warnings, summary_status, health_check, exit_code>>

\* generate_health_report over the parsed collection
ReportParsed ==
    /\ pc \in {"parsed_pvs", "parsed_vgs", "parsed_lvs", "parsed_pools"}
    /\ LET r == generate_health_report(pvs, vgs, lvs, thin_pools) IN
          /\ issues' = r.issues
          /\ warnings' = r.warnings
    /\ pc' = IF pc = "parsed_pvs" THEN "reported_pvs"
             ELSE IF pc = "parsed_vgs" THEN "reported_vgs"
             ELSE IF pc = "parsed_lvs" THEN "reported_lvs"
             ELSE "reported_pools"
    /\ UNCHANGED <<stdout, code, pvs, vgs, lvs, thin_pools, mounts, dm_devices,
                   metadata_backup, summary_status, health_check, exit_code>>

ParseNext ==
    \/ ParsePhysicalVolumes
    \/ ParseVolumeGroups
    \/ ParseLogicalVolumes
    \/ ParseThinPools
    \/ ParseMounts
    \/ ReportParsed

ParseSpec == ParseInit /\ [][ParseNext]_vars

\* ------------------------------------------------------------------ claims

\* the classified statuses of the entities of a snapshot
EntityStatuses(hc) ==
    {PhysicalVolume_lvm_status(hc.pvs[i]) : i \in 1..Len(hc.pvs)}
    \cup {VolumeGroup_lvm_status(hc.vgs[i]) : i \in 1..Len(hc.vgs)}
    \cup {LogicalVolume_lvm_status(hc.lvs[i]) : i \in 1..Len(hc.lvs)}
    \cup {ThinPool_lvm_status(hc.thin_pools[i]) : i \in 1..Len(hc.thin_pools)}

\* main has exited after run_full_check returned a snapshot
Completed == pc = "exited" /\ health_check # NoHealthCheck

\* main has exited out of run_full_check's installation check
Aborted == pc = "exited" /\ health_check = NoHealthCheck

\* C1: a completed run exits 0 when the snapshot's overall status is HEALTHY, 1 when
\* it is WARNING and 2 when it is CRITICAL, and with no other code.
C1_ExitCodeFollowsOverallStatus ==
    Completed =>
        /\ exit_code \in {0, 1, 2}
        /\ (exit_code = 0) <=> (overall_status(health_check) = "HEALTHY")
        /\ (exit_code = 1) <=> (overall_status(health_check) = "WARNING")
        /\ (exit_code = 2) <=> (overall_status(health_check) = "CRITICAL")

\* a completed run whose snapshot is WARNING and whose exit code is 1
C1_Witness ==
    /\ Completed
    /\ overall_status(health_check) = "WARNING"
    /\ exit_code = 1

\* C2: a snapshot's overall status is CRITICAL exactly when one of its entities is
\* classified CRITICAL, whatever the warnings hold; otherwise it is WARNING when the
\* warning list is non-empty and HEALTHY when it is empty.
C2_OverallStatusFromEntities ==
    health_check # NoHealthCheck =>
        /\ (overall_status(health_check) = "CRITICAL")
               <=> ("CRITICAL" \in EntityStatuses(health_check))
        /\ ("CRITICAL" \notin EntityStatuses(health_check) /\ health_check.warnings # <<>>)
               => overall_status(health_check) = "WARNING"
        /\ ("CRITICAL" \notin EntityStatuses(health_check) /\ health_check.warnings = <<>>)
               => overall_status(health_check) = "HEALTHY"

\* a snapshot whose only CRITICAL entities are thin pools, with warnings beside them
C2_Witness ==
    /\ health_check # NoHealthCheck
    /\ \E i \in 1..Len(health_check.thin_pools) :
          ThinPool_lvm_status(health_check.thin_pools[i]) = "CRITICAL"
    /\ \A i \in 1..Len(health_check.pvs) : PhysicalVolume_lvm_status(health_check.pvs[i]) # "CRITICAL"
    /\ \A i \in 1..Len(health_check.vgs) : VolumeGroup_lvm_status(health_check.vgs[i]) # "CRITICAL"
    /\ \A i \in 1..Len(health_check.lvs) : LogicalVolume_lvm_status(health_check.lvs[i]) # "CRITICAL"
    /\ health_check.warnings # <<>>
    /\ overall_status(health_check) = "CRITICAL"

\* C3: when the toolset is absent the run aborts before any collection step, with an
\* exit status that is non-zero and is none of the statuses of a completed check.
C3_AbortStatusIsDistinct ==
    Aborted =>
        /\ pvs = <<>> /\ vgs = <<>> /\ lvs = <<>> /\ thin_pools = <<>>
        /\ mounts = <<>> /\ dm_devices = <<>>
        /\ exit_code # 0
        /\ exit_code \notin {0, 1, 2}

\* the collection steps of run_full_check, in order, and what follows them
CollectionSteps ==
    << "check_physical_volumes", "check_volume_groups", "check_logical_volumes",
       "check_thin_pools", "check_lvm_mounts", "check_dm_devices",
       "check_lvm_metadata_backup", "generate_health_report" >>

\* the collections, in the order of the steps that fill them
Collections == <<pvs, vgs, lvs, thin_pools, mounts, dm_devices, metadata_backup>>

\* C4: past the installation check, whatever the commands do, the collection steps
\* run in order and the snapshot is built; a step whose command failed or timed out
\* leaves an empty collection, and no step touches another step's collection.
C4_EveryStepRunsWhateverFails ==
    /\ [][\A k \in 1..7 :
             pc = CollectionSteps[k] =>
                /\ pc' = CollectionSteps[k + 1]
                /\ (k <= 6 /\ code' # 0) => Collections'[k] = <<>>
                /\ \A j \in (1..7) \ {k} : Collections'[j] = Collections[j]]_vars
    /\ (pc = "check_physical_volumes") ~> (health_check # NoHealthCheck)

\* the volume-group listing timed out after the physical volumes had been collected
C4_Witness ==
    /\ pc = "check_logical_volumes"
    /\ code = 124
    /\ pvs # <<>>
    /\ vgs = <<>>

\* the messages of `msgs` about volume group `n` that give `reason`
VgMessages(msgs, n, reason) ==
    {k \in 1..Len(msgs) : msgs[k].kind = "VG" /\ msgs[k].name = n /\ msgs[k].reason = reason}

\* the volume groups named `n` whose flags classify them HEALTHY and whose
\* free-percentage is under `hi` percent
SoundVgsUnder(n, hi) ==
    {j \in 1..Len(vgs) :
        /\ vgs[j].name = n
        /\ VolumeGroup_lvm_status(vgs[j]) = "HEALTHY"
        /\ vgs[j].free_percent < hi * Scale}

\* C5: in the health report a volume group whose flags classify it HEALTHY yields one
\* issue string when its free-percentage is under 5, one warning string when it is at
\* least 5 and under 10, and nothing from 10 on; the volume group itself is left as
\* parsed, its status still HEALTHY.  (Strings are counted per name, so two volume
\* groups of one name are counted together.)
C5_FreeSpaceRulesOfSoundVolumeGroups ==
    pc = "reported_vgs" =>
        /\ vgs = check_volume_groups(stdout, code)
        /\ \A i \in 1..Len(vgs) :
              VolumeGroup_lvm_status(vgs[i]) = "HEALTHY" =>
                 LET n == vgs[i].name IN
                 /\ Cardinality(VgMessages(issues, n, "only % free"))
                       = Cardinality(SoundVgsUnder(n, 5))
                 /\ Cardinality(VgMessages(warnings, n, "low free space"))
                       = Cardinality(SoundVgsUnder(n, 10) \ SoundVgsUnder(n, 5))
                 /\ VgMessages(warnings, n, "only % free") = {}
                 /\ VgMessages(warnings, n, "partial/missing") = {}
                 /\ VgMessages(issues, n, "low free space") = {}
                 /\ Cardinality(VgMessages(issues, n, "partial/missing"))
                       = Cardinality({j \in 1..Len(vgs) :
                             vgs[j].name = n /\ VolumeGroup_lvm_status(vgs[j]) = "CRITICAL"})

\* two sound volume groups, one at 4.90 % with its one issue and one at 7.00 % with
\* its one warning
C5_Witness ==
    /\ pc = "reported_vgs"
    /\ Len(vgs) = 2
    /\ VolumeGroup_lvm_status(vgs[1]) = "HEALTHY" /\ vgs[1].free_percent = 490
    /\ VolumeGroup_lvm_status(vgs[2]) = "HEALTHY" /\ vgs[2].free_percent = 700
    /\ Len(issues) = 1 /\ issues[1].name = vgs[1].name
    /\ Len(warnings) = 1 /\ warnings[1].name = vgs[2].name

\* the place of an entity kind in the report
KindRank(kind) ==
    CASE kind = "PV" -> 1 [] kind = "VG" -> 2 [] kind = "LV" -> 3 [] kind = "Thin Pool" -> 4

\* the names the report gives the entities of a kind, in input order
EntityNames(kind) ==
    CASE kind = "PV" -> [i \in 1..Len(pvs) |-> pvs[i].name]
      [] kind = "VG" -> [i \in 1..Len(vgs) |-> vgs[i].name]
      [] kind = "LV" -> [i \in 1..Len(lvs) |-> qualified_name(lvs[i])]
      [] kind = "Thin Pool" -> [i \in 1..Len(thin_pools) |-> qualified_name(thin_pools[i])]

\* kinds in the order PV, VG, LV, thin pool; within a kind, the entities' input order
InReportOrder(msgs) ==
    \A i, j \in 1..Len(msgs) :
        i < j =>
            /\ KindRank(msgs[i].kind) <= KindRank(msgs[j].kind)
            /\ msgs[i].kind = msgs[j].kind =>
                  LET names == EntityNames(msgs[i].kind) IN
                  \E a, b \in 1..Len(names) :
                      a < b /\ names[a] = msgs[i].name /\ names[b] = msgs[j].name

\* C6: in the issue list and in the warning list every physical-volume string comes
\* before every volume-group string, those before every logical-volume string, those
\* before every thin-pool string; within a kind the strings are in input order.
C6_ReportOrder == InReportOrder(issues) /\ InReportOrder(warnings)

\* issues of all four kinds, the volume group short of space listed ahead of the
\* partial one that follows it in the input, and warnings of three kinds
C6_Witness ==
    /\ pc = "display_summary"
    /\ {issues[k].kind : k \in 1..Len(issues)} = {"PV", "VG", "LV", "Thin Pool"}
    /\ {warnings[k].kind : k \in 1..Len(warnings)} = {"PV", "VG", "Thin Pool"}
    /\ \E k \in 1..(Len(issues) - 1) :
          /\ issues[k].reason = "only % free"
          /\ issues[k + 1].reason = "partial/missing"
    /\ \E k \in 1..(Len(issues) - 1) : issues[k].kind = "LV" /\ issues[k + 1].kind = "LV"

\* C7: a thin pool is CRITICAL above 90 data-usage, else WARNING above 80 data-usage,
\* else CRITICAL above 90 metadata-usage, else WARNING above 80 metadata-usage, else
\* HEALTHY: exactly 90 is not CRITICAL and exactly 80 is HEALTHY.
C7_ThinPoolThresholds ==
    \A i \in 1..Len(thin_pools) :
        LET d == thin_pools[i].data_percent
            m == thin_pools[i].metadata_percent
            st == ThinPool_lvm_status(thin_pools[i])
        IN  /\ d > 9000 => st = "CRITICAL"
            /\ (8000 < d /\ d <= 9000) => st = "WARNING"
            /\ (d <= 8000 /\ m > 9000) => st = "CRITICAL"
            /\ (d <= 8000 /\ 8000 < m /\ m <= 9000) => st = "WARNING"
            /\ (d <= 8000 /\ m <= 8000) => st = "HEALTHY"

\* a pool at exactly 90.00 data-usage is WARNING, one at 80.00 / 80.00 would be HEALTHY
C7_Witness ==
    /\ pc = "parsed_pools"
    /\ Len(thin_pools) = 1
    /\ thin_pools[1].data_percent = 9000
    /\ thin_pools[1].metadata_percent = 8000
    /\ ThinPool_lvm_status(thin_pools[1]) = "WARNING"

\* C8: whatever the data-usage, metadata-usage above 90 makes the pool CRITICAL and
\* metadata-usage above 80 makes it at least WARNING.
C8_MetadataThresholdIndependent ==
    \A i \in 1..Len(thin_pools) :
        LET m == thin_pools[i].metadata_percent
            st == ThinPool_lvm_status(thin_pools[i])
        IN  /\ m > 9000 => st = "CRITICAL"
            /\ m > 8000 => st \in {"WARNING", "CRITICAL"}

\* the number of "|"-separated fields of a line
FieldCount(line) ==
    Cardinality({i \in 1..Len(strip(line)) : strip(line)[i] = "|"}) + 1

\* the first field of a line, trimmed
FirstField(line) ==
    LET l    == strip(line)
        bars == {i \in 1..Len(l) : l[i] = "|"}
        k    == IF bars = {} THEN Len(l) + 1 ELSE CHOOSE i \in bars : \A j \in bars : i <= j
    IN  strip(SubSeq(l, 1, k - 1))

\* the names on the lines of the output that are neither blank nor shorter than
\* `min` fields, in input order
NamesOnKeptLines(min) ==
    LET kept == SelectSeq(output_lines(stdout),
                          LAMBDA l : strip(l) # <<>> /\ FieldCount(l) >= min)
    IN  [i \in 1..Len(kept) |-> FirstField(kept[i])]

NamesOf(entities) == [i \in 1..Len(entities) |-> entities[i].name]

\* C9: each listing parser skips the blank lines and the lines with fewer fields than
\* its minimum (PV 6, VG 6, LV 4, thin pool 5) and returns one entity for each other
\* line, in input order; an empty or all-blank output gives an empty collection.
C9_OneEntityPerWellFormedLine ==
    /\ pc = "parsed_pvs" => NamesOf(pvs) = NamesOnKeptLines(6)
    /\ pc = "parsed_vgs" => NamesOf(vgs) = NamesOnKeptLines(6)
    /\ pc = "parsed_lvs" => NamesOf(lvs) = NamesOnKeptLines(4)
    /\ pc = "parsed_pools" => NamesOf(thin_pools) = NamesOnKeptLines(5)

\* C10: no parsed entity stores an empty string for a field that was empty in the
\* listing: the PV volume group is the orphan marker, the LV pool and origin are
\* absent, and the optional uuid, extent size and segments are absent.
C10_EmptyFieldsAreAbsent ==
    /\ \A i \in 1..Len(pvs) : pvs[i].vg_name # <<>> /\ pvs[i].uuid # <<>>
    /\ \A i \in 1..Len(vgs) : vgs[i].uuid # <<>> /\ vgs[i].extent_size # <<>>
    /\ \A i \in 1..Len(lvs) :
          /\ lvs[i].pool # <<>> /\ lvs[i].origin # <<>>
          /\ lvs[i].uuid # <<>> /\ lvs[i].segments # <<>>
    /\ \A i \in 1..Len(thin_pools) : thin_pools[i].lv_uuid # <<>>

\* a path under /dev/mapper/, or /dev/dm-N for a non-negative integer N
IsDeviceMapperPath(tok) ==
    \/ /\ Len(tok) > 12
       /\ SubSeq(tok, 1, 12) = <<"/","d","e","v","/","m","a","p","p","e","r","/">>
    \/ /\ Len(tok) > 8
       /\ SubSeq(tok, 1, 8) = <<"/","d","e","v","/","d","m","-">>
       /\ \A i \in 9..Len(tok) : IsDigit(tok[i])

\* a line of the form "<device> on <mount point> type <fs>" with such a device
IsLvmMountLine(line) ==
    /\ line # <<>> /\ line[1] \notin Whitespace
    /\ Len(tokens(line)) >= 5
    /\ tokens(line)[2] = <<"o","n">>
    /\ tokens(line)[4] = <<"t","y","p","e">>
    /\ IsDeviceMapperPath(tokens(line)[1])

\* C11: check_lvm_mounts returns a binding for every mount-table line of the form
\* "<device> on <mount point> type <fs>" whose device is under /dev/mapper/ or is
\* /dev/dm-N for any N, a single digit included, and for no other line.
C11_BindingForEveryDeviceMapperMount ==
    pc = "parsed_mounts" =>
        LET wanted == SelectSeq(output_lines(stdout), IsLvmMountLine)
        IN  /\ Len(mounts) = Len(wanted)
            /\ \A i \in 1..Len(wanted) :
                  /\ mounts[i].device = tokens(wanted[i])[1]
                  /\ mounts[i].mount_point = tokens(wanted[i])[3]
                  /\ mounts[i].fs_type = tokens(wanted[i])[5]

\* C12: the aggregate accessibility flag of the metadata backup check is false exactly
\* when one of the three directory records exists and is not accessible; directories
\* that are not found are recorded as non-existent and leave the flag true.
C12_AccessibleFlagMatchesRecords ==
    LET dirs == metadata_backup.directories
    IN  Len(dirs) = Len(backup_dirs) =>
           /\ (~metadata_backup.accessible) <=>
                 (\E i \in 1..Len(dirs) : dirs[i].exists /\ ~dirs[i].accessible)
           /\ (\A i \in 1..Len(dirs) : ~dirs[i].exists) => metadata_backup.accessible

\* the k-th "|"-separated field of a line, untrimmed
Field(line, k) ==
    LET l      == strip(line)
        bars   == {i \in 1..Len(l) : l[i] = "|"}
        bar(n) == CHOOSE i \in bars : Cardinality({j \in bars : j <= i}) = n
        first  == IF k = 1 THEN 1 ELSE bar(k - 1) + 1
        last   == IF Cardinality(bars) >= k THEN bar(k) - 1 ELSE Len(l)
    IN  SubSeq(l, first, last)

\* a number in decimal notation: an optional sign, digits, at most one separator
\* (comma or period), blanks around it
IsNumericText(text) ==
    LET body     == strip(text)
        unsigned == IF body # <<>> /\ body[1] \in {"+", "-"} THEN Tail(body) ELSE body
        seps     == {i \in 1..Len(unsigned) : unsigned[i] \in {",", "."}}
        digits   == {i \in 1..Len(unsigned) : IsDigit(unsigned[i])}
    IN  /\ Cardinality(seps) <= 1
        /\ digits # {}
        /\ seps \cup digits = 1..Len(unsigned)

\* defaults a caller may supply
FloatDefaults == {0, 7 * Scale}

\* the output is one physical volume line and it has been parsed
OneSizeParsed ==
    pc = "parsed_pvs" /\ Len(pvs) = 1 /\ Len(output_lines(stdout)) = 1

SizeText == Field(output_lines(stdout)[1], 3)

C14_PvStatusFromFlags ==
    \A i \in 1..Len(pvs) :
        LET flags == pvs[i].attributes
            has(c) == \E k \in 1..Len(flags) : flags[k] = c
            label  == pvs[i].status
            class  == PhysicalVolume_lvm_status(pvs[i])
        IN  /\ has("m") => label = <<"M","I","S","S","I","N","G">> /\ class = "CRITICAL"
            /\ has("u") /\ ~has("m") => label = <<"U","N","K","N","O","W","N">> /\ class = "CRITICAL"
            /\ ~has("a") /\ ~has("m") /\ ~has("u") => label = <<"I","N","A","C","T","I","V","E">> /\ class = "WARNING"
            /\ has("a") /\ ~has("m") /\ ~has("u") => label = <<"A","C","T","I","V","E">> /\ class = "HEALTHY"

\* an allocatable physical volume that is missing has been parsed and is CRITICAL
C14_Witness ==
    /\ pc = "parsed_pvs"
    /\ \E i \in 1..Len(pvs) :
          /\ pvs[i].attributes = <<"a","m","-">>
          /\ pvs[i].status = <<"M","I","S","S","I","N","G">>
          /\ PhysicalVolume_lvm_status(pvs[i]) = "CRITICAL"

\* C15: the classification of a volume group is CRITICAL if its attribute flags hold
\* the partial marker 'p' or the exported marker 'x', HEALTHY if they hold neither,
\* WARNING in any case that is neither of these two, and never UNKNOWN.
C15_VgStatusFromFlags ==
    \A i \in 1..Len(vgs) :
        LET flags    == vgs[i].attributes
            partial  == \E k \in 1..Len(flags) : flags[k] = "p"
            exported == \E k \in 1..Len(flags) : flags[k] = "x"
            class    == VolumeGroup_lvm_status(vgs[i])
        IN  /\ partial \/ exported => class = "CRITICAL"
            /\ ~partial /\ ~exported => class = "HEALTHY"
            /\ ~(partial \/ exported) /\ ~(~partial /\ ~exported) => class = "WARNING"
            /\ class # "UNKNOWN"

\* an exported volume group that is not partial has been parsed and is CRITICAL
C15_Witness ==
    /\ pc = "parsed_vgs"
    /\ \E i \in 1..Len(vgs) :
          /\ vgs[i].attributes = <<"w","z","x","-","n","-">>
          /\ VolumeGroup_lvm_status(vgs[i]) = "CRITICAL"

\* C16: a parsed logical volume has a pool name only if its type tag is THIN and an
\* origin name only if its type tag is SNAPSHOT; a line with flag 't' and pool field
\* thinpool0 gives type THIN and pool thinpool0.
C16_PoolAndOriginOnlyForTheirTypes ==
    \A i \in 1..Len(lvs) :
        /\ lvs[i].pool # None => lvs[i].lv_type = "THIN"
        /\ lvs[i].origin # None => lvs[i].lv_type = "SNAPSHOT"
        /\ (pc = "parsed_lvs" /\ Len(lvs) = Len(output_lines(stdout))
               /\ contains(Field(output_lines(stdout)[i], 4), "t")
               /\ strip(Field(output_lines(stdout)[i], 5)) = <<"t","h","i","n","p","o","o","l","0">>)
              => lvs[i].lv_type = "THIN" /\ lvs[i].pool = <<"t","h","i","n","p","o","o","l","0">>

\* C17: in a completed run the verdict printed by display_summary (CRITICAL if there
\* are issues, else WARNING if there are warnings, else HEALTHY) is the overall status
\* of the snapshot built from the same collections, and so agrees with the exit code;
\* a non-empty issue list means the snapshot is CRITICAL.
C17_SummaryVerdictIsOverallStatus ==
    Completed =>
        /\ summary_status = display_summary(issues, warnings)
        /\ summary_status = overall_status(health_check)
        /\ exit_code = main_exit_code(summary_status)
        /\ issues # <<>> => overall_status(health_check) = "CRITICAL"

\* C18: in every snapshot, if some physical volume, volume group, logical volume or
\* thin pool is classified WARNING, then the warning list is not empty and the overall
\* status is not HEALTHY.
C18_WarningEntityIsReported ==
    (health_check # NoHealthCheck /\ "WARNING" \in EntityStatuses(health_check)) =>
        /\ health_check.warnings # <<>>
        /\ overall_status(health_check) # "HEALTHY"

\* C19: whether check_thin_pools makes an entity of a record with at least 5 fields
\* does not depend on the letters in the record: writing another letter for every 't'
\* of the listing, or 't' for every other letter, changes no record's fate, so a
\* record is neither dropped for lacking a 't' nor taken for containing one.
C19_PoolRecordsKeptWhateverTheirLetters ==
    pc = "parsed_pools" =>
        \A c \in {"x", "z"} :
            /\ Len(check_thin_pools(replace(stdout, "t", c), code)) = Len(thin_pools)
            /\ Len(check_thin_pools(replace(stdout, c, "t"), code)) = Len(thin_pools)

====
